---------------------------- MODULE Spec2Model ----------------------------
(***************************************************************************)
(* A model of CropImageBorder (src/comfyui_crop_border.py): the border     *)
(* detection of _detect_borders and the crop pipeline of crop_border.      *)
(*                                                                         *)
(* A tensor is a record [shape, data]: shape is the sequence of its        *)
(* dimensions and data maps every 0-based index tuple to a sample.         *)
(* Samples are exact fixed-point numbers: the float 1.0 is Unit.  Float    *)
(* rounding is not modelled; comparisons are those of exact arithmetic.    *)
(* The images tried have three float channels and no empty axis.           *)
(***************************************************************************)
EXTENDS Integers, Sequences, FiniteSets

\* ------------------------------------------------------------------ scale
\* The float 1.0 (the white target) in sample units; 0.01 is Unit \div 100.
Unit == 5100
White == Unit
Black == 0
\* corner patch side, img[:, :10, :10]
PatchSize == 10
\* smallest crop kept, bottom - top < 10
MinCrop == 10

\* ---------------------------------------------------------------- tensors
Min(a, b) == IF a < b THEN a ELSE b
Abs(x) == IF x < 0 THEN -x ELSE x

RECURSIVE Indices(_)
Indices(shape) ==
  IF shape = <<>> THEN {<<>>}
  ELSE {<<i>> \o rest : i \in 0..(shape[1] - 1), rest \in Indices(Tail(shape))}

Rank(t) == Len(t.shape)

\* torch.Tensor.permute(*dims): axis i of the result is axis dims[i] of t.
Permute(t, dims) ==
  LET n == Len(dims)
      newShape == [i \in 1..n |-> t.shape[dims[i] + 1]]
      inv == [k \in 1..n |-> CHOOSE i \in 1..n : dims[i] + 1 = k]
      Old(idx) == [k \in 1..n |-> idx[inv[k]]]
  IN [shape |-> newShape,
      data  |-> [idx \in Indices(newShape) |-> t.data[Old(idx)]]]

\* image[0]
First(t) ==
  [shape |-> Tail(t.shape),
   data  |-> [idx \in Indices(Tail(t.shape)) |-> t.data[<<0>> \o idx]]]

\* image.unsqueeze(0)
Unsqueeze(t) ==
  [shape |-> <<1>> \o t.shape,
   data  |-> [idx \in Indices(<<1>> \o t.shape) |-> t.data[Tail(idx)]]]

\* image[:, top:bottom, left:right] of a [C, H, W] tensor (Python clamps a
\* slice to the axis).
Slice(t, top, bottom, left, right) ==
  LET b == Min(bottom, t.shape[2])
      r == Min(right, t.shape[3])
      newShape == <<t.shape[1],
                    IF b > top THEN b - top ELSE 0,
                    IF r > left THEN r - left ELSE 0>>
  IN [shape |-> newShape,
      data  |-> [idx \in Indices(newShape) |->
                   t.data[<<idx[1], idx[2] + top, idx[3] + left>>]]]

\* -------------------------------------------------------- _detect_borders
\* (a variant of _check_row comparing with <= instead of <)
CheckRowInclusive(img, row, threshold, target) ==
  \A c \in 0..(img.shape[1] - 1), w \in 0..(img.shape[3] - 1) :
     Abs(img.data[<<c, row, w>>] - target) <= threshold

\* _check_row: every sample of the row, in every channel, is closer to
\* target than threshold (torch.all over the [C, W] slice).
check_row(img, row, threshold, target) ==
  \A c \in 0..(img.shape[1] - 1), w \in 0..(img.shape[3] - 1) :
     Abs(img.data[<<c, row, w>>] - target) < threshold

\* _check_col: the same test over the [C, H] slice of a column.
check_col(img, col, threshold, target) ==
  \A c \in 0..(img.shape[1] - 1), h \in 0..(img.shape[2] - 1) :
     Abs(img.data[<<c, h, col>>] - target) < threshold

\* torch.mean(img[:, :10, :10]) > 0.5, as sum * 2 > count * Unit: the sum
\* of the patch, row by row and channel by channel.
PatchSum(img) ==
  LET h == Min(PatchSize, img.shape[2])
      w == Min(PatchSize, img.shape[3])
      RowSum(c, r) ==
        LET S[k \in 0..w] ==
              IF k = 0 THEN 0 ELSE S[k - 1] + img.data[<<c, r, k - 1>>]
        IN S[w]
      ChannelSum(c) ==
        LET S[r \in 0..h] == IF r = 0 THEN 0 ELSE S[r - 1] + RowSum(c, r - 1)
        IN S[h]
      Total[c \in 0..img.shape[1]] ==
        IF c = 0 THEN 0 ELSE Total[c - 1] + ChannelSum(c - 1)
  IN Total[img.shape[1]]

PatchCount(img) ==
  img.shape[1] * Min(PatchSize, img.shape[2]) * Min(PatchSize, img.shape[3])

is_white(img) == 2 * PatchSum(img) > PatchCount(img) * Unit

Target(img) == IF is_white(img) THEN White ELSE Black

\* (a variant of the top scan without its safety check)
RECURSIVE ScanTopNoSafety(_, _, _, _)
ScanTopNoSafety(img, threshold, target, top) ==
  IF top < img.shape[2] /\ check_row(img, top, threshold, target)
  THEN ScanTopNoSafety(img, threshold, target, top + 1)
  ELSE top

\* The four scans: each takes the current value of its bound and gives
\* the value the loop ends with.
RECURSIVE ScanTop(_, _, _, _)
ScanTop(img, threshold, target, top) ==
  IF top < img.shape[2] /\ check_row(img, top, threshold, target)
  THEN IF top + 1 >= img.shape[2] - 1
       THEN 0
       ELSE ScanTop(img, threshold, target, top + 1)
  ELSE top

RECURSIVE ScanBottom(_, _, _, _, _)
ScanBottom(img, threshold, target, top, bottom) ==
  IF bottom > top /\ check_row(img, bottom, threshold, target)
  THEN IF bottom - 1 <= top
       THEN img.shape[2] - 1
       ELSE ScanBottom(img, threshold, target, top, bottom - 1)
  ELSE bottom

RECURSIVE ScanLeft(_, _, _, _)
ScanLeft(img, threshold, target, left) ==
  IF left < img.shape[3] /\ check_col(img, left, threshold, target)
  THEN IF left + 1 >= img.shape[3] - 1
       THEN 0
       ELSE ScanLeft(img, threshold, target, left + 1)
  ELSE left

RECURSIVE ScanRight(_, _, _, _, _)
ScanRight(img, threshold, target, left, right) ==
  IF right > left /\ check_col(img, right, threshold, target)
  THEN IF right - 1 <= left
       THEN img.shape[3] - 1
       ELSE ScanRight(img, threshold, target, left, right - 1)
  ELSE right

\* The scans' result <<top, left, bottom, right>>, before validation.
Scans(img, threshold) ==
  LET H == img.shape[2]
      W == img.shape[3]
      target == Target(img)
      top == ScanTop(img, threshold, target, 0)
      bottom == ScanBottom(img, threshold, target, top, H - 1)
      left == ScanLeft(img, threshold, target, 0)
      right == ScanRight(img, threshold, target, left, W - 1)
  IN <<top, left, bottom, right>>

\* (a variant of the validation without the test for the whole image)
ValidateNoWholeCheck(H, W, b) ==
  IF b[1] >= b[3] \/ b[2] >= b[4]
     \/ b[1] < 0 \/ b[3] >= H \/ b[2] < 0 \/ b[4] >= W
  THEN <<0, 0, H, W>>
  ELSE b

\* (a variant without the tests top >= bottom and left >= right)
ValidateNoInversionCheck(H, W, b) ==
  IF b[1] < 0 \/ b[3] >= H \/ b[2] < 0 \/ b[4] >= W
     \/ (b[1] = 0 /\ b[3] = H - 1 /\ b[2] = 0 /\ b[4] = W - 1)
  THEN <<0, 0, H, W>>
  ELSE b

\* "Validate borders": the rectangle returned for the scans' result b.
Validate(H, W, b) ==
  IF b[1] >= b[3] \/ b[2] >= b[4]
     \/ b[1] < 0 \/ b[3] >= H \/ b[2] < 0 \/ b[4] >= W
     \/ (b[1] = 0 /\ b[3] = H - 1 /\ b[2] = 0 /\ b[4] = W - 1)
  THEN <<0, 0, H, W>>
  ELSE b

\* img with every sample divided by 255 when its largest sample is above
\* 1.0 (the samples tried are multiples of 255 then), else img.
Normalized(img) ==
  IF \E idx \in DOMAIN img.data : img.data[idx] > Unit
  THEN [shape |-> img.shape,
        data  |-> [idx \in DOMAIN img.data |-> img.data[idx] \div 255]]
  ELSE img

\* (a variant that rescales [0,255] samples before detecting)
DetectBordersNormalized(img, threshold) ==
  Validate(img.shape[2], img.shape[3], Scans(Normalized(img), threshold))

\* _detect_borders: the scans, then the validation.
detect_borders(img, threshold) ==
  Validate(img.shape[2], img.shape[3], Scans(img, threshold))

\* ----------------------------------------------------------------- inputs
\* Sizes of the images tried: the small ones, and two large enough for a
\* frame of 5 to leave a crop of MinCrop rows.
MaxSmall == 3
MaxLarge == 21
SmallDims == 1..MaxSmall
LargeDims == {MaxLarge - 9, MaxLarge}
Dims == SmallDims \cup LargeDims
\* <<height, width>> of the framed images
Sizes == (SmallDims \X SmallDims) \cup (LargeDims \X LargeDims)
         \cup {<<MaxLarge, MaxSmall>>, <<MaxSmall, MaxLarge>>}

\* threshold: 0.02 (the default) and 0.1 (the largest the node offers)
Thresholds == {2 * (Unit \div 100), 10 * (Unit \div 100)}

\* Pixel colours <<R, G, B>>.
WhitePx == <<White, White, White>>
BlackPx == <<Black, Black, Black>>
\* white but for a blue channel 0.04 below it
TintedPx == <<White, White, White - 4 * (Unit \div 100)>>
\* every channel exactly 0.02 below white
OffWhitePx == <<White - 2 * (Unit \div 100), White - 2 * (Unit \div 100),
                White - 2 * (Unit \div 100)>>
GrayPx == <<Unit \div 2, Unit \div 2, Unit \div 2>>
FrameColours == {WhitePx, BlackPx, TintedPx, OffWhitePx, GrayPx}

\* The interior: between 0.30 and 0.38 in every channel, never within
\* 0.1 of white or of black, and different from pixel to pixel.
InteriorPx(r, c) ==
  LET v == 30 * (Unit \div 100) + ((3 * r + 5 * c) % 7) * (Unit \div 100)
  IN <<v, v + (Unit \div 100), v + 2 * (Unit \div 100)>>

\* A logical image [h, w, px]: a frame f1 wide at the top and the left and
\* f2 wide at the bottom and the right, around the interior; every sample
\* multiplied by scale (1 for [0,1] samples, 255 for [0,255] samples).
Framed(h, w, f1, f2, frame, scale) ==
  [h |-> h, w |-> w,
   px |-> [p \in (0..(h - 1)) \X (0..(w - 1)) |->
             LET q == IF p[1] < f1 \/ p[2] < f1
                         \/ p[1] >= h - f2 \/ p[2] >= w - f2
                      THEN frame ELSE InteriorPx(p[1], p[2])
             IN [k \in 1..3 |-> q[k] * scale]]]

\* The tensor the caller passes for a logical image in a layout.
AsCHW(lg) ==
  [shape |-> <<3, lg.h, lg.w>>,
   data  |-> [idx \in Indices(<<3, lg.h, lg.w>>) |->
                lg.px[<<idx[2], idx[3]>>][idx[1] + 1]]]

AsHWC(lg) ==
  [shape |-> <<lg.h, lg.w, 3>>,
   data  |-> [idx \in Indices(<<lg.h, lg.w, 3>>) |->
                lg.px[<<idx[1], idx[2]>>][idx[3] + 1]]]

AsTensor(lg, lay) ==
  IF lay = "CHW" THEN AsCHW(lg)
  ELSE IF lay = "HWC" THEN AsHWC(lg)
  ELSE Unsqueeze(AsHWC(lg))

Layouts == {"CHW", "HWC"}

FrameWidths == {0, 1, 5}

FramedImages ==
  {Framed(s[1], s[2], f1, f2, col, 1) :
     s \in Sizes, f1 \in FrameWidths, f2 \in FrameWidths,
     col \in {WhitePx, BlackPx}}
  \cup {Framed(s[1], s[2], f, f, col, 1) :
          s \in Sizes, f \in FrameWidths, col \in FrameColours}

\* Images of one colour, of every size.
UniformImages ==
  {Framed(s[1], s[2], s[1], s[2], col, 1) : s \in Sizes, col \in FrameColours}

\* Every image of at most MaxCells pixels over three colours.
MaxCells == 4
TinyShapes == {s \in (1..MaxCells) \X (1..MaxCells) : s[1] * s[2] <= MaxCells}
TinyImages ==
  UNION {{[h |-> s[1], w |-> s[2], px |-> f] :
            f \in [(0..(s[1] - 1)) \X (0..(s[2] - 1)) ->
                     {WhitePx, BlackPx, GrayPx}]} :
         s \in TinyShapes}

\* Images with samples in [0, 255].
ByteImages ==
  {Framed(h, w, f, f, col, 255) :
     h \in LargeDims, w \in LargeDims, f \in {0, 5}, col \in {WhitePx, BlackPx}}

\* A tensor of any shape filled with 0.5.
Filled(shape) == [shape |-> shape, data |-> [idx \in Indices(shape) |-> Unit \div 2]]

\* Buffers whose rank crop_border does not support, and an empty batch.
BadShapes == {<<>>, <<3>>, <<4>>, <<2, 2>>, <<2, 3>>, <<1, 1, 2, 2, 3>>,
              <<1, 1, 3, 2, 2>>, <<0, 2, 2, 3>>}

Inputs ==
  {[tensor |-> AsTensor(lg, lay), layout |-> lay] :
     lg \in FramedImages \cup UniformImages \cup TinyImages \cup ByteImages,
     lay \in Layouts}
  \cup {[tensor |-> AsTensor(Framed(h, h, f, f, col, 1), "BHWC"), layout |-> "BHWC"] :
          h \in Dims, f \in FrameWidths, col \in {WhitePx, BlackPx}}
  \cup {[tensor |-> Filled(s), layout |-> "none"] : s \in BadShapes}

\* ------------------------------------------------------------ crop_border
VARIABLES
  input,      \* the buffer the caller passed
  layout,     \* the layout the caller built it in
  threshold,  \* the threshold parameter
  image,      \* the local variable image
  borders,    \* <<top, left, bottom, right>> returned by _detect_borders
  result,     \* the tensor returned
  outcome,    \* "none", "returned" or "raised"
  pc          \* position in crop_border

vars == <<input, layout, threshold, image, borders, result, outcome, pc>>

NoTensor == [shape |-> <<>>, data |-> <<>>]

Init ==
  /\ \E i \in Inputs : input = i.tensor /\ layout = i.layout /\ image = i.tensor
  /\ threshold \in Thresholds
  /\ borders = <<>>
  /\ result = NoTensor
  /\ outcome = "none"
  /\ pc = "batch"

\* if len(image.shape) == 4: image = image[0]   (IndexError on an empty batch)
HandleBatch ==
  /\ pc = "batch"
  /\ IF Rank(image) = 4
     THEN IF image.shape[1] = 0
          THEN pc' = "except" /\ UNCHANGED image
          ELSE pc' = "layout" /\ image' = First(image)
     ELSE pc' = "layout" /\ UNCHANGED image
  /\ UNCHANGED <<input, layout, threshold, borders, result, outcome>>

\* if image.shape[-1] == 3: image = image.permute(2, 0, 1)
\* shape[-1] of a 0-d tensor and permute of a tensor that is not 3-d raise.
ToCHW ==
  /\ pc = "layout"
  /\ IF Rank(image) = 0
     THEN pc' = "except" /\ UNCHANGED image
     ELSE IF image.shape[Rank(image)] = 3
          THEN IF Rank(image) = 3
               THEN pc' = "shape" /\ image' = Permute(image, <<2, 0, 1>>)
               ELSE pc' = "except" /\ UNCHANGED image
          ELSE pc' = "shape" /\ UNCHANGED image
  /\ UNCHANGED <<input, layout, threshold, borders, result, outcome>>

\* C, H, W = image.shape   (ValueError unless the tensor is 3-d)
Unpack ==
  /\ pc = "shape"
  /\ pc' = IF Rank(image) = 3 THEN "detect" ELSE "except"
  /\ UNCHANGED <<input, layout, threshold, image, borders, result, outcome>>

\* top, left, bottom, right = self._detect_borders(image, threshold)
Detect ==
  /\ pc = "detect"
  /\ borders' = detect_borders(image, threshold)
  /\ pc' = "check"
  /\ UNCHANGED <<input, layout, threshold, image, result, outcome>>

\* "Convert back": a 3-d tensor whose first axis is 3 is permuted to HWC.
\* (The early returns assign the permuted tensor to image before returning
\* it; nothing reads image afterwards, and the model leaves it as it was.)
ToHWC(t) == IF Rank(t) = 3 /\ t.shape[1] = 3 THEN Permute(t, <<1, 2, 0>>) ELSE t

\* (a variant of the size test with "and" for "or")
TooSmallBoth(b) == b[3] - b[1] < MinCrop /\ b[4] - b[2] < MinCrop

no_borders(b, H, W) == b[1] = 0 /\ b[2] = 0 /\ b[3] = H /\ b[4] = W

too_small(b) == b[3] - b[1] < MinCrop \/ b[4] - b[2] < MinCrop

\* if top == 0 and left == 0 and bottom == H and right == W: return image
NoBorders ==
  /\ pc = "check"
  /\ no_borders(borders, image.shape[2], image.shape[3])
  /\ result' = Unsqueeze(ToHWC(image))
  /\ outcome' = "returned"
  /\ pc' = "done"
  /\ UNCHANGED <<input, layout, threshold, image, borders>>

\* if bottom - top < 10 or right - left < 10: return image
TooSmall ==
  /\ pc = "check"
  /\ ~no_borders(borders, image.shape[2], image.shape[3])
  /\ too_small(borders)
  /\ result' = Unsqueeze(ToHWC(image))
  /\ outcome' = "returned"
  /\ pc' = "done"
  /\ UNCHANGED <<input, layout, threshold, image, borders>>

\* cropped = image[:, top:bottom, left:right]; return cropped
Crop ==
  /\ pc = "check"
  /\ ~no_borders(borders, image.shape[2], image.shape[3])
  /\ ~too_small(borders)
  /\ result' = Unsqueeze(ToHWC(Slice(image, borders[1], borders[3],
                                     borders[2], borders[4])))
  /\ outcome' = "returned"
  /\ pc' = "done"
  /\ UNCHANGED <<input, layout, threshold, image, borders>>

\* (a variant returning the buffer without the batch axis)
ExceptReturnBare(img) == img

\* return (image if len(image.shape) == 4 else image.unsqueeze(0),)
except_return(img) == IF Rank(img) = 4 THEN img ELSE Unsqueeze(img)

\* except Exception as e: the error is printed and the image returned
Except ==
  /\ pc = "except"
  /\ result' = except_return(image)
  /\ outcome' = "returned"
  /\ pc' = "done"
  /\ UNCHANGED <<input, layout, threshold, image, borders>>

Next ==
  \/ HandleBatch
  \/ ToCHW
  \/ Unpack
  \/ Detect
  \/ NoBorders
  \/ TooSmall
  \/ Crop
  \/ Except

Spec == Init /\ [][Next]_vars

\* ------------------------------------------------- reading the buffers
\* The input is an image (not a buffer of unsupported rank).
IsImage == layout \in {"CHW", "HWC", "BHWC"}

\* Height, width and samples of the logical image the caller passed.
InH == IF layout = "CHW" THEN input.shape[2]
       ELSE IF layout = "HWC" THEN input.shape[1] ELSE input.shape[2]

InW == IF layout = "CHW" THEN input.shape[3]
       ELSE IF layout = "HWC" THEN input.shape[2] ELSE input.shape[3]

InPx(r, c, k) ==
  IF layout = "CHW" THEN input.data[<<k, r, c>>]
  ELSE IF layout = "HWC" THEN input.data[<<r, c, k>>]
  ELSE input.data[<<0, r, c, k>>]

\* The 3-d image inside the input.
Base == IF Rank(input) = 4 THEN First(input) ELSE input

\* The image is returned with its extent and every pixel as passed: as the
\* same tensor, or as that tensor moved from channel-first to channel-last.
ReturnedUnchanged ==
  /\ outcome = "returned"
  /\ \/ result = Unsqueeze(Base)
     \/ layout = "CHW" /\ result = Unsqueeze(Permute(Base, <<1, 2, 0>>))

\* _detect_borders has run.
Detected == borders # <<>>

FullExtent == <<0, 0, image.shape[2], image.shape[3]>>

\* crop_border sliced the image (neither early return was taken).
Cropped ==
  /\ pc = "done" /\ Detected
  /\ ~no_borders(borders, image.shape[2], image.shape[3])
  /\ ~too_small(borders)

\* The per-pixel mean test of the specification: the mean of the three
\* channels of pixel (r, c) of img is closer to target than threshold.
MeanWithin(img, r, c, target) ==
  Abs(img.data[<<0, r, c>>] + img.data[<<1, r, c>>] + img.data[<<2, r, c>>]
      - 3 * target) < 3 * threshold

InMeanWithin(r, c, target) ==
  Abs(InPx(r, c, 0) + InPx(r, c, 1) + InPx(r, c, 2) - 3 * target) < 3 * threshold

\* The logical input has a solid frame of colour v, f wide on every side,
\* and no interior pixel within the tolerance of white or of black.
FramedBy(f, v) ==
  /\ IsImage /\ f >= 1 /\ InH > 2 * f /\ InW > 2 * f
  /\ \A r \in 0..(InH - 1), c \in 0..(InW - 1) :
       IF r < f \/ c < f \/ r >= InH - f \/ c >= InW - f
       THEN \A k \in 0..2 : InPx(r, c, k) = v
       ELSE ~InMeanWithin(r, c, White) /\ ~InMeanWithin(r, c, Black)

\* The minimum-size guard does not apply to the interior of a frame of f.
InteriorKept(f) == InH - 2 * f >= MinCrop /\ InW - 2 * f >= MinCrop

\* ------------------------------------------------------------------- C1
\* C1: an image with a solid white frame of 5 around an interior not within
\* the tolerance of white is cropped to the rectangle (5, 5, H-5, W-5),
\* and the output holds every interior pixel and no frame pixel.  (Stated
\* for the interiors the minimum-size guard keeps.)
C1_ExactSymmetricCrop ==
  (pc = "done" /\ FramedBy(5, White) /\ InteriorKept(5)) =>
     /\ borders = <<5, 5, InH - 5, InW - 5>>
     /\ outcome = "returned"
     /\ Rank(result) = 4
     /\ result.shape[2] = InH - 10
     /\ result.shape[3] = InW - 10
     /\ \A r \in 0..(InH - 11), c \in 0..(InW - 11), k \in 0..2 :
          result.data[<<0, r, c, k>>] = InPx(r + 5, c + 5, k)

\* ------------------------------------------------------------------- C2
\* C2 as stated: a buffer of unsupported rank ends in an error raised to
\* the caller, never in a returned image.
C2_InvalidRankRaises ==
  (pc = "done" /\ Rank(input) \notin {3, 4}) => outcome = "raised"

\* C2 as amended: a buffer of unsupported rank never raises; the error is
\* caught and the buffer is returned with a leading axis of size 1 added.
C2_InvalidRankPassesThrough ==
  (pc = "done" /\ Rank(input) \notin {3, 4}) =>
     outcome = "returned" /\ result = Unsqueeze(input)

C2_Witness ==
  pc = "done" /\ Rank(input) = 5 /\ outcome = "returned"
  /\ result.shape = <<1>> \o input.shape

\* ------------------------------------------------------------------- C3
\* The rectangle crop_border keeps: the detected one when it slices, the
\* whole image otherwise.
Kept == IF Cropped THEN borders ELSE <<0, 0, InH, InW>>

\* C3: the rectangle depends on the logical image only, not on the layout
\* it arrives in, and the output has the layout of the input: a
\* channel-first input gives the kept rectangle channel-first, a
\* channel-last input gives it channel-last.
C3_LayoutRoundTrip ==
  (pc = "done" /\ layout \in {"CHW", "HWC"} /\ Detected) =>
     /\ borders = detect_borders(IF layout = "CHW" THEN input
                                 ELSE Permute(input, <<2, 0, 1>>), threshold)
     /\ layout = "CHW" =>
          result = Unsqueeze(Slice(input, Kept[1], Kept[3], Kept[2], Kept[4]))
     /\ layout = "HWC" =>
          result = Unsqueeze(Permute(Slice(Permute(input, <<2, 0, 1>>),
                                           Kept[1], Kept[3], Kept[2], Kept[4]),
                                     <<1, 2, 0>>))

\* ------------------------------------------------------------------- C4
\* C4: a solid white frame and a solid black frame of the same width f
\* around the same interior (within the tolerance of neither colour) give
\* the same rectangle, the interior (f, f, H-f, W-f).  (Stated for the
\* interiors the minimum-size guard keeps.)
C4_BlackWhiteSameRectangle ==
  \A f \in 1..MaxLarge : \A v \in {White, Black} :
     (Detected /\ FramedBy(f, v) /\ InteriorKept(f)) =>
        borders = <<f, f, InH - f, InW - f>>

\* ------------------------------------------------------------------- C5
\* Every pixel of the image _detect_borders is given has the same colour.
UniformImage ==
  \A idx \in DOMAIN image.data : image.data[idx] = image.data[<<idx[1], 0, 0>>]

UniformInput ==
  IsImage /\ \A r \in 0..(InH - 1), c \in 0..(InW - 1), k \in 0..2 :
               InPx(r, c, k) = InPx(0, 0, k)

\* C5: for an image of one colour the scans end at (0, 0, H-1, W-1), never
\* at an empty or inverted rectangle, _detect_borders returns the full
\* extent (0, 0, H, W), and crop_border returns the image unchanged.
C5_UniformUnchanged ==
  /\ (Detected /\ UniformImage) =>
        /\ Scans(image, threshold) = <<0, 0, image.shape[2] - 1, image.shape[3] - 1>>
        /\ borders = FullExtent
  /\ (pc = "done" /\ UniformInput) => ReturnedUnchanged

C5_Witness ==
  /\ pc = "done" /\ UniformInput /\ UniformImage /\ ReturnedUnchanged
  /\ InH = MaxLarge /\ InW = MaxLarge - 9
  /\ InPx(0, 0, 0) = White
  /\ borders = FullExtent

\* ------------------------------------------------------------------- C6
\* None of the first row, the last row, the first column and the last
\* column of the image is border by _check_row / _check_col.
NoEdgeBorder ==
  LET t == Target(image)
  IN /\ ~check_row(image, 0, threshold, t)
     /\ ~check_row(image, image.shape[2] - 1, threshold, t)
     /\ ~check_col(image, 0, threshold, t)
     /\ ~check_col(image, image.shape[3] - 1, threshold, t)

\* C6: an image with no uniform border gets the full-extent rectangle and
\* is returned with its height, width and pixels unchanged.
C6_NoBorderNoCrop ==
  (Detected /\ NoEdgeBorder) =>
     /\ borders = FullExtent
     /\ pc = "done" => ReturnedUnchanged

C6_Witness ==
  /\ pc = "done" /\ Detected /\ NoEdgeBorder /\ ~UniformImage
  /\ image.shape[2] = MaxLarge /\ image.shape[3] = MaxLarge
  /\ borders = FullExtent /\ ReturnedUnchanged

\* ------------------------------------------------------------------- C7
\* C7: when the region inside the detected border (rows top..bottom of the
\* scans, or the rectangle returned) is under 10 high or wide, the image
\* is returned uncropped; every output is the whole image or is at least
\* 10 high and 10 wide.
C7_MinimumSize ==
  (pc = "done" /\ IsImage /\ Detected) =>
     LET s == Scans(image, threshold)
     IN /\ (s[3] - s[1] + 1 < MinCrop \/ s[4] - s[2] + 1 < MinCrop)
             => ReturnedUnchanged
        /\ (borders[3] - borders[1] < MinCrop \/ borders[4] - borders[2] < MinCrop)
             => ReturnedUnchanged
        /\ \/ ReturnedUnchanged
           \/ /\ outcome = "returned"
              /\ result.shape[2] >= MinCrop
              /\ result.shape[3] >= MinCrop

C7_Witness ==
  /\ pc = "done" /\ IsImage /\ Detected
  /\ borders # FullExtent
  /\ borders[3] - borders[1] >= MinCrop
  /\ borders[4] - borders[2] < MinCrop
  /\ ReturnedUnchanged

\* ------------------------------------------------------------------- C8
\* C8: the rectangle _detect_borders returns satisfies
\* 0 <= top < bottom <= H and 0 <= left < right <= W.
C8_RectangleInvariant ==
  Detected =>
     /\ 0 <= borders[1] /\ borders[1] < borders[3] /\ borders[3] <= image.shape[2]
     /\ 0 <= borders[2] /\ borders[2] < borders[4] /\ borders[4] <= image.shape[3]

C8_Witness ==
  /\ Cropped
  /\ borders[1] > 0 /\ borders[2] > 0
  /\ borders[3] < image.shape[2] - 1 /\ borders[4] < image.shape[3] - 1

\* ------------------------------------------------------------------- C9
RowMeanBorder(row, t) ==
  \A c \in 0..(image.shape[3] - 1) : MeanWithin(image, row, c, t)

ColMeanBorder(col, t) ==
  \A r \in 0..(image.shape[2] - 1) : MeanWithin(image, r, col, t)

\* The largest deviation from the target t among the channels of pixel (r, c).
MaxDeviation(r, c, t) ==
  LET d0 == Abs(image.data[<<0, r, c>>] - t)
      d1 == Abs(image.data[<<1, r, c>>] - t)
      d2 == Abs(image.data[<<2, r, c>>] - t)
  IN IF d0 >= d1 /\ d0 >= d2 THEN d0
     ELSE IF d1 >= d2 THEN d1 ELSE d2

\* C9 as stated: a row or column is border exactly when every pixel of it
\* passes the per-pixel mean test.
C9_BorderIffMeanTest ==
  (pc = "check" /\ image.shape[1] = 3) =>
     LET t == Target(image)
     IN /\ \A row \in 0..(image.shape[2] - 1) :
             check_row(image, row, threshold, t) <=> RowMeanBorder(row, t)
        /\ \A col \in 0..(image.shape[3] - 1) :
             check_col(image, col, threshold, t) <=> ColMeanBorder(col, t)

\* C9 as amended: a row or column is border exactly when the channel of
\* each of its pixels that is farthest from the target is closer to it
\* than the threshold; then every pixel passes the mean test too, but a
\* row passing the mean test need not be border.
C9_BorderIffEveryChannel ==
  (pc = "check" /\ image.shape[1] = 3) =>
     LET t == Target(image)
     IN /\ \A row \in 0..(image.shape[2] - 1) :
             /\ check_row(image, row, threshold, t)
                  <=> \A c \in 0..(image.shape[3] - 1) :
                         MaxDeviation(row, c, t) < threshold
             /\ check_row(image, row, threshold, t) => RowMeanBorder(row, t)
        /\ \A col \in 0..(image.shape[3] - 1) :
             /\ check_col(image, col, threshold, t)
                  <=> \A r \in 0..(image.shape[2] - 1) :
                         MaxDeviation(r, col, t) < threshold
             /\ check_col(image, col, threshold, t) => ColMeanBorder(col, t)

\* A row passes the mean test and is not border: one channel is too far.
C9_Witness ==
  /\ pc = "check" /\ image.shape[1] = 3 /\ image.shape[2] = MaxLarge
  /\ RowMeanBorder(0, Target(image))
  /\ ~check_row(image, 0, threshold, Target(image))
  /\ check_row(image, 0, 10 * (Unit \div 100), Target(image))

\* ------------------------------------------------------------------ C10
HasByteSamples == \E idx \in DOMAIN input.data : input.data[idx] > Unit

\* C10 as stated: when the largest sample is above 1.0 the rectangle is the
\* one of the same image with every sample divided by 255.
C10_RescaledRectangle ==
  (Detected /\ HasByteSamples) =>
     borders = detect_borders(Normalized(image), threshold)

\* Row r (column c) of the image holds a sample of at least 1.0 + threshold.
RowAboveWhite(r) ==
  \E c \in 0..(image.shape[1] - 1), w \in 0..(image.shape[3] - 1) :
     image.data[<<c, r, w>>] >= Unit + threshold

ColAboveWhite(w) ==
  \E c \in 0..(image.shape[1] - 1), r \in 0..(image.shape[2] - 1) :
     image.data[<<c, r, w>>] >= Unit + threshold

\* C10 as amended: the samples are never rescaled.  Detection runs on the
\* samples as passed, so an image whose first and last row and column each
\* hold a sample of at least 1.0 + threshold (a frame of 255, say) gets the
\* full-extent rectangle and is returned uncropped.
C10_SamplesNotRescaled ==
  /\ (IsImage /\ pc = "shape") =>
        image = Base \/ image = Permute(Base, <<2, 0, 1>>)
  /\ (Detected /\ RowAboveWhite(0) /\ RowAboveWhite(image.shape[2] - 1)
      /\ ColAboveWhite(0) /\ ColAboveWhite(image.shape[3] - 1)) =>
        /\ borders = FullExtent
        /\ pc = "done" => ReturnedUnchanged

\* A white frame of 255 that the image divided by 255 would lose.
C10_Witness ==
  /\ pc = "done" /\ HasByteSamples /\ Detected
  /\ RowAboveWhite(0) /\ ColAboveWhite(0)
  /\ borders = FullExtent /\ ReturnedUnchanged
  /\ detect_borders(Normalized(image), threshold) # FullExtent

=============================================================================
